---- MODULE Spec2Model ----
(***************************************************************************)
(* Model of the Strapi MCP server (src/mcp-server.mjs, plugin developer    *)
(* edition): the line-oriented transport loop, the method dispatcher, the  *)
(* tool executors and the backend client, as a state machine of the Node   *)
(* event loop: line events, queued promise continuations (microtasks) and  *)
(* backend completions.                                                    *)
(***************************************************************************)
EXTENDS Integers, Sequences, FiniteSets, TLC

(***************************************************************************)
(* Bounds of the model.                                                    *)
(***************************************************************************)
\* number of input lines read before the model stops reading
MaxLines == 2
\* number of pages a backend asset listing can have
MaxPages == 2
\* number of assets of one page whose URL contains the old prefix
MaxMatches == 1
\* number of elements of an array of a query object
MaxElems == 2

(***************************************************************************)
(* Program constants.                                                      *)
(***************************************************************************)
\* pagination[pageSize]=100 and `files.length < 100`
PageSize == 100
\* error: { code: -32603, ... }
ErrorCode == -32603

(***************************************************************************)
(* Input alphabet: what a line of standard input can be.                   *)
(***************************************************************************)
\* `request.id === undefined`
Undefined == 0

\* the id of the line read as number i: none, or one no other line carries
Ids(i) == { Undefined, i }

\* the names of TOOLS, in declaration order
TOOLS ==
    << "strapi_whoami", "strapi_list_apis", "strapi_get_schema",
       "strapi_list_components", "strapi_query", "strapi_get_entry",
       "strapi_get_page_by_slug", "strapi_get_single", "strapi_create_entry",
       "strapi_update_entry", "strapi_delete_entry", "strapi_list_media",
       "strapi_replace_media_urls", "strapi_list_plugins",
       "strapi_get_plugin_structure", "strapi_get_design_system_info" >>

ToolNames == { TOOLS[k] : k \in DOMAIN TOOLS }

\* the `case` labels of the switch in handleRequest, by the shape of the executor
RemoteCases ==
    { "strapi_whoami", "strapi_query", "strapi_get_entry", "strapi_get_page_by_slug",
      "strapi_get_single", "strapi_create_entry", "strapi_update_entry",
      "strapi_delete_entry", "strapi_list_media" }

LocalCases ==
    { "strapi_list_apis", "strapi_get_schema", "strapi_list_components",
      "strapi_list_plugins", "strapi_get_plugin_structure",
      "strapi_get_design_system_info" }

\* a switch without the case of the bulk replace
NoBulkCase == { }

BulkCases == { "strapi_replace_media_urls" }

SwitchCases == RemoteCases \cup LocalCases \cup BulkCases

\* the cases whose right-hand side reads a property of `args`
ReadsArgs ==
    { "strapi_get_schema", "strapi_query", "strapi_get_entry", "strapi_get_page_by_slug",
      "strapi_get_single", "strapi_create_entry", "strapi_update_entry",
      "strapi_delete_entry", "strapi_list_media", "strapi_replace_media_urls",
      "strapi_get_plugin_structure" }

\* tool names a tools/call line of the model may carry
CallNames == ToolNames \cup { "no_such_tool" }

Methods == { "initialize", "notifications/initialized", "tools/list", "tools/call",
             "no/such/method" }

\* kind: blank (empty or white space), garbage (not JSON), null (the JSON value
\* null), scalar (a JSON number, string, boolean or array), object
NonObjectLines ==
    [ kind : {"blank", "garbage", "null", "scalar"}, method : {"-"}, id : {Undefined},
      params : {"absent"}, name : {"-"}, args : {"absent"} ]

\* params is read by tools/call only; the lines of the model carry it for
\* initialize, too
PlainLines(i) ==
    [ kind : {"object"}, method : Methods \ {"tools/call"}, id : Ids(i),
      params : {"absent"}, name : {"-"}, args : {"absent"} ]
    \cup
    [ kind : {"object"}, method : {"initialize"}, id : Ids(i),
      params : {"object"}, name : {"-"}, args : {"absent"} ]

CallLines(i) ==
    [ kind : {"object"}, method : {"tools/call"}, id : Ids(i),
      params : {"object"}, name : CallNames, args : {"absent", "object"} ]
    \cup
    [ kind : {"object"}, method : {"tools/call"}, id : Ids(i),
      params : {"absent"}, name : {"-"}, args : {"absent"} ]

Lines(i) == NonObjectLines \cup PlainLines(i) \cup CallLines(i)

\* bodies the backend can answer with
Bodies == { "b1", "b2" }

\* the text of a response body: one that JSON.parse accepts, with the value
\* it denotes, or one that it rejects
JsonText(content) == [ valid |-> TRUE, content |-> content ]
PlainText(content) == [ valid |-> FALSE, content |-> content ]

\* a settled fetch: a response with its status and the text of its body (for
\* a page of the asset listing, the number of its files and of those that
\* contain the old prefix), or a rejection
Response(status, body, len, matches) ==
    [ kind |-> "response", status |-> status, body |-> body, len |-> len, matches |-> matches ]

Rejection == [ kind |-> "reject", status |-> 0, body |-> PlainText("-"), len |-> 0, matches |-> 0 ]

\* response.ok: the status is in the range 200-299
ResponseOk(resp) == resp.kind = "response" /\ resp.status \in 200..299

\* what one backend call of a request can end in: a success status, a
\* non-success status, or a rejected fetch
Responses ==
    { Response(200, JsonText(b), 0, 0) : b \in Bodies }
    \cup { Response(500, JsonText("b1"), 0, 0), Rejection }

\* what a fetch of page `page` of the asset listing can end in: on success the
\* number of assets of the page and how many of them contain the old prefix;
\* the listing is finite, its last page is short
PageResponses(page) ==
    { r \in { Response(200, JsonText("-"), len, matches) :
                len \in {0, 1, PageSize}, matches \in 0..MaxMatches } :
        /\ r.matches <= r.len
        /\ page >= MaxPages => r.len < PageSize }
    \cup { r \in Responses : ~ResponseOk(r) }

\* what a filesystem read of a local executor can find
FsStates == { "found", "missing", "throws" }

(***************************************************************************)
(* Values and texts.  A text is a sequence of pieces, so that a template   *)
(* literal is a concatenation and "starts with" is a test of the first     *)
(* piece.                                                                  *)
(***************************************************************************)
\* JSON.stringify(value, null, 2) of an object: the text opens with a brace
JSONstringify(value) == << "{", value, "}" >>

\* the JavaScript value undefined
JsUndefined == [ type |-> "undefined" ]

\* a handler that acknowledges with a bare `return;`
ReturnsUndefined == JsUndefined

\* the JavaScript value null, as handleRequest returns it
JsNull == [ type |-> "null" ]

\* the document returned to `initialize`
InitializeResult ==
    [ type |-> "object",
      protocolVersion |-> "2024-11-05",
      capabilities |-> [ tools |-> [ listChanged |-> FALSE ] ],
      serverInfo |-> [ name |-> "strapi-mcp-dev-edition", version |-> "1.5.0" ] ]

\* a listing that leaves out the developer tools
ToolsListWithoutDevTools == [ type |-> "object", tools |-> SubSeq(TOOLS, 1, 13) ]

\* { tools: TOOLS }
ToolsListResult == [ type |-> "object", tools |-> TOOLS ]

\* { content: [{ type: 'text', text: JSON.stringify(result, null, 2) }] }
ToolResult(result) ==
    [ type |-> "object",
      content |-> << [ type |-> "text", text |-> JSONstringify(result) ] >> ]

\* { content: [{ type: 'text', text: `Error: ${e.message}` }], isError: true }
ToolError(message) ==
    [ type |-> "object",
      content |-> << [ type |-> "text", text |-> << "Error: " >> \o message ] >>,
      isError |-> TRUE ]

\* error.message of what the code and the runtime throw
MethodNotFound(method) == << "Method not found: ", method >>
ToolNotFound(name) == << "Tool not found: ", name >>
CannotDestructure == << "Cannot destructure property of undefined or null" >>
CannotReadProperty == << "Cannot read properties of undefined" >>
FsFailure == << "filesystem or JSON error" >>
FetchFailed == << "fetch failed" >>
\* `${response.status}`: the decimal numeral of a number
RECURSIVE Numeral(_)
Numeral(n) ==
    LET digit == << "0", "1", "2", "3", "4", "5", "6", "7", "8", "9" >>[(n % 10) + 1]
    IN  IF n < 10 THEN << digit >> ELSE Numeral(n \div 10) \o << digit >>

\* `Strapi API Error (${response.status}): ${JSON.stringify(data)}`
StrapiApiError(status, data) ==
    << "Strapi API Error (" >> \o Numeral(status) \o << "): " >> \o JSONstringify(data)

\* what a local executor returns when its path is missing or found
LocalResult(name, fs) ==
    CASE name = "strapi_list_apis" ->
           IF fs = "missing" THEN [ error |-> "src/api directory not found" ]
                             ELSE [ apis |-> "directories" ]
      [] name = "strapi_get_schema" ->
           IF fs = "missing" THEN [ error |-> "Schema not found" ]
                             ELSE [ schema |-> "schema.json" ]
      [] name = "strapi_list_components" ->
           IF fs = "missing" THEN [ components |-> << >> ]
                             ELSE [ components |-> "categories" ]
      [] name = "strapi_list_plugins" ->
           IF fs = "missing"
             THEN [ plugins |-> << >>, info |-> "src/plugins directory not found" ]
             ELSE [ plugins |-> "directories" ]
      [] name = "strapi_get_plugin_structure" ->
           IF fs = "missing" THEN [ error |-> "Plugin not found" ]
                             ELSE [ name |-> "plugin", structure |-> "tree" ]
      [] OTHER ->
           IF fs = "missing" THEN [ error |-> "@strapi/design-system not found in node_modules" ]
                             ELSE [ message |-> "Strapi Design System detected." ]

(***************************************************************************)
(* The dispatcher, up to its first wait on the backend.  An outcome is     *)
(*   [st |-> "return", val]    handleRequest resolves with val             *)
(*   [st |-> "throw", message] handleRequest rejects                       *)
(*   [st |-> "await", call]    a backend call was issued                   *)
(* and exc records what was thrown inside the try of tools/call: nothing,  *)
(* an error of the executor, or the `default` of the switch.               *)
(***************************************************************************)
Return(val) == [ st |-> "return", val |-> val, exc |-> "none" ]
Throw(message) == [ st |-> "throw", message |-> message, exc |-> "none" ]
Await(call) == [ st |-> "await", call |-> call, exc |-> "none" ]

\* the same handler without its try/catch
RethrowToolFailure(exc, message) == [ st |-> "throw", message |-> message, exc |-> exc ]

\* catch (e) { return { content: [...`Error: ${e.message}`...], isError: true }; }
CatchToolFailure(exc, message) ==
    [ st |-> "return", val |-> ToolError(message), exc |-> exc ]

\* a dispatcher that acknowledges what it does not know
IgnoreUnknownMethod(method) == Return(JsNull)

\* throw new Error(`Method not found: ${method}`)
UnknownMethod(method) == Throw(MethodNotFound(method))

\* a handshake that reads the protocol version the client sent in params
InitializeReadingParams(params) ==
    IF params = "absent" THEN Throw(CannotReadProperty) ELSE Return(InitializeResult)

\* if (method === 'initialize') return { protocolVersion: ..., ... }
Initialize(params) == Return(InitializeResult)

\* local executors without the fs.existsSync guard
RaisesWhenMissing(fs) == fs # "found"

\* a local executor raises when a read of its existing path fails; a path
\* that fs.existsSync does not find is answered with a return
Raises(fs) == fs = "throws"

\* the switch of tools/call with its try/catch, params being an object
ToolsCall(name, args) ==
    IF name \notin SwitchCases
      THEN { CatchToolFailure("notfound", ToolNotFound(name)) }
    ELSE IF name \in ReadsArgs /\ args = "absent"
      THEN { CatchToolFailure("executor", CannotReadProperty) }
    ELSE IF name \in LocalCases
      THEN { [ fs |-> fs ] @@ (IF Raises(fs)
                                 THEN CatchToolFailure("executor", FsFailure)
                                 ELSE Return(ToolResult(LocalResult(name, fs))))
             : fs \in FsStates }
    ELSE IF name \in BulkCases
      THEN { Await("page") }
    ELSE { Await("single") }

\* a destructuring of params placed inside the try block
MissingParamsCaught == CatchToolFailure("executor", CannotDestructure)

\* const { name, arguments: args } = params, params being undefined: the
\* TypeError is thrown before the try block is entered
MissingParams == Throw(CannotDestructure)

\* handleRequest(request), request being the parsed line
HandleRequest(line) ==
    IF line.kind = "null" THEN { Throw(CannotDestructure) }
    ELSE IF line.kind = "scalar" THEN { UnknownMethod("undefined") }
    ELSE IF line.method = "initialize" THEN { Initialize(line.params) }
    ELSE IF line.method = "notifications/initialized" THEN { Return(JsNull) }
    ELSE IF line.method = "tools/list" THEN { Return(ToolsListResult) }
    ELSE IF line.method = "tools/call"
      THEN IF line.params = "absent" THEN { MissingParams }
                                     ELSE ToolsCall(line.name, line.args)
    ELSE { UnknownMethod(line.method) }

\* a server that keeps a session: a tools/call is refused until an earlier
\* line has been an initialize
DispatchInSession(rs, line) ==
    IF /\ line.kind = "object" /\ line.method = "tools/call"
       /\ \A j \in DOMAIN rs : ~(rs[j].line.kind = "object" /\ rs[j].line.method = "initialize")
      THEN { Throw(<< "Server not initialized" >>) }
      ELSE HandleRequest(line)

\* await handleRequest(request), the lines read before being rs: the call
\* passes the request alone, and handleRequest reads the constants CONFIG
\* and TOOLS only
Dispatch(rs, line) == HandleRequest(line)

(***************************************************************************)
(* The line handler around `await handleRequest(request)`: what it writes  *)
(* and logs for the line read as number `cause`.                           *)
(***************************************************************************)
\* a handler that answers the request read last
ResponseIdOfLatest(rs, cause) == rs[Len(rs)].line.id

\* the id a response envelope carries: request.id of the handler's own request
ResponseId(rs, cause) == rs[cause].line.id

\* a handler that answers notifications too
MustRespondAlways(line) == TRUE

\* if (request.id !== undefined)
MustRespond(line) == line.id # Undefined

\* JSON.stringify({ jsonrpc: '2.0', id: request.id, result }): a member whose
\* value is undefined is left out, one whose value is null is written
ResultEnvelope(id, cause, result) ==
    IF result.type = "undefined"
      THEN [ jsonrpc |-> "2.0", id |-> id, cause |-> cause ]
      ELSE [ jsonrpc |-> "2.0", id |-> id, result |-> result, cause |-> cause ]

ErrorEnvelope(id, cause, message) ==
    [ jsonrpc |-> "2.0", id |-> id,
      error |-> [ code |-> ErrorCode, message |-> message ], cause |-> cause ]

\* a handler whose catch is empty
RespondOnSuccessOnly(id, cause, hr) ==
    IF hr.st = "return" THEN << ResultEnvelope(id, cause, hr.val) >> ELSE << >>

\* a handler whose error write is not confined to the catch
RespondTwice(id, cause, hr) ==
    IF hr.st = "return"
      THEN << ResultEnvelope(id, cause, hr.val), ErrorEnvelope(id, cause, << "" >>) >>
      ELSE << ErrorEnvelope(id, cause, hr.message) >>

\* the write of the try, or the write of the inner catch
Respond(id, cause, hr) ==
    IF hr.st = "return" THEN << ResultEnvelope(id, cause, hr.val) >>
                        ELSE << ErrorEnvelope(id, cause, hr.message) >>

\* a handler without the outer try: the TypeError of `request.id` on null
\* leaves the handler
EscapesOnNull(line, hr) == line.kind = "null" /\ hr.st = "throw"

\* whether an exception leaves the handler: the outer try/catch encloses the
\* whole body
Escapes(line, hr) == FALSE

\* a parse failure that is dropped without a trace
ParseFailureSilent == << >>

\* catch (e) { log(`Failed to parse request: ${e.message}`); }
ParseFailure == << "Failed to parse request" >>

\* an inner catch that reads the id through optional chaining
InnerCatchNeverThrows(line, hr) == FALSE

\* catch (e) { if (request.id !== undefined) ... }: reading `request.id`
\* throws a TypeError when the dispatch failed on the value null
InnerCatchThrows(line, hr) == hr.st = "throw" /\ line.kind = "null"

\* [write |-> lines written, log |-> messages logged, uncaught |-> the handler's
\*  promise rejects]
Settle(rs, cause, hr) ==
    LET line == rs[cause].line
    IN  IF Escapes(line, hr)
          THEN [ write |-> << >>, log |-> << >>, uncaught |-> TRUE ]
        ELSE IF InnerCatchThrows(line, hr)
          \* the outer catch logs
          THEN [ write |-> << >>, log |-> ParseFailure, uncaught |-> FALSE ]
        ELSE [ write |-> IF MustRespond(line)
                           THEN Respond(ResponseId(rs, cause), cause, hr) ELSE << >>,
               log |-> << >>, uncaught |-> FALSE ]

(***************************************************************************)
(* The backend client and the executors that wait on it.                   *)
(***************************************************************************)
\* no data: nothing was decoded
NoData == [ type |-> "none" ]

\* a client that hands on the text it could not decode
DecodedOrText(text) ==
    IF text.valid THEN [ type |-> "json", value |-> text.content ]
                  ELSE [ type |-> "text", value |-> text.content ]

\* try { data = JSON.parse(text); } catch (e) { data = { raw: text }; }
Decoded(text) ==
    IF text.valid THEN [ type |-> "json", value |-> text.content ]
                  ELSE [ type |-> "object", raw |-> text.content ]

\* strapiRequest once fetch has settled: the decoded body, or the error thrown
StrapiRequest(resp) ==
    IF resp.kind = "reject"
      THEN [ ok |-> FALSE, data |-> NoData, message |-> FetchFailed ]
    ELSE IF ~ResponseOk(resp)
      THEN [ ok |-> FALSE, data |-> Decoded(resp.body),
             message |-> StrapiApiError(resp.status, Decoded(resp.body)) ]
    ELSE [ ok |-> TRUE, data |-> Decoded(resp.body), message |-> << >> ]

\* what strapiRequest hands to fetch: the URL, the method, the headers and
\* the body
FetchRequest(config, endpoint, method, body) ==
    [ url |-> << config.STRAPI_URL, endpoint >>,
      method |-> method,
      headers |-> IF config.STRAPI_TOKEN # ""
                    THEN { << "Content-Type", "application/json" >>,
                           << "Authorization", "Bearer", config.STRAPI_TOKEN >> }
                    ELSE { << "Content-Type", "application/json" >> },
      body |-> IF body.type # "null" THEN JSONstringify(body) ELSE << >> ]

NoOutcome == [ st |-> "none", exc |-> "none" ]

\* the state of one invocation: its line, where it stands, the outcome of
\* handleRequest once settled, the backend call in flight, the messages it has
\* logged, the locals of replaceMediaUrls (page, totalUpdated, the matching
\* files of the current page still to update, files.length of that page),
\* and records of its history: whether handleRequest was called, what was
\* thrown inside the try of tools/call, the body of the last call the backend
\* answered with success, the number of files seen whose URL contains the
\* old prefix, the number of update calls issued, the call that failed, and
\* what the local executor found at its path
Request(line, pc, hr, call, logged) ==
    [ line |-> line, pc |-> pc, hr |-> hr, call |-> call, logged |-> logged,
      page |-> IF call = "page" THEN 1 ELSE 0, todo |-> 0, files |-> 0,
      totalUpdated |-> 0,
      dispatched |-> FALSE, exc |-> "none", got |-> NoData,
      matched |-> 0, updates |-> 0, failed |-> "none", fs |-> "none" ]

\* a loop that stops on an empty page only
EndOfPageUntilEmpty(r) ==
    [ r EXCEPT !.hr = Await("page"), !.call = "page", !.page = r.page + 1 ]

\* replaceMediaUrls at the end of the for loop over one page:
\* if (files.length < 100) break; page++
EndOfPage(r) ==
    IF r.files < PageSize
      THEN [ r EXCEPT !.hr = Return(ToolResult([ totalUpdated |-> r.totalUpdated ])),
                      !.call = "none" ]
      ELSE [ r EXCEPT !.hr = Await("page"), !.call = "page", !.page = r.page + 1 ]

\* an executor that rewrites every file of the page
MatchingEveryFile(resp) == resp.len

\* the number of files of the page for which
\* `file.url && file.url.includes(oldBaseUrl)` holds
Matching(resp) == resp.matches

\* an executor that never counts
CountNothing(r) == [ r EXCEPT !.todo = r.todo - 1 ]

\* totalUpdated++ after the awaited update call has succeeded; the for loop
\* moves on to the next file
CountUpdate(r) == [ r EXCEPT !.totalUpdated = r.totalUpdated + 1, !.todo = r.todo - 1 ]

\* replaceMediaUrls resumed by the settled call `resp`
ReplaceMediaUrls(r, resp) ==
    LET got == StrapiRequest(resp)
    IN  IF ~got.ok
          THEN [ r EXCEPT !.hr = CatchToolFailure("executor", got.message), !.call = "none",
                          !.failed = r.call ]
        ELSE IF r.call = "page"
          THEN IF resp.len = 0
                 THEN [ r EXCEPT !.hr = Return(ToolResult([ totalUpdated |-> r.totalUpdated ])),
                                 !.call = "none", !.files = 0 ]
               ELSE IF Matching(resp) > 0
                 THEN [ r EXCEPT !.hr = Await("update"), !.call = "update",
                                 !.todo = Matching(resp), !.files = resp.len,
                                 !.matched = r.matched + resp.matches,
                                 !.updates = r.updates + 1 ]
               ELSE EndOfPage([ r EXCEPT !.files = resp.len,
                                         !.matched = r.matched + resp.matches ])
        ELSE \* an update call succeeded
             LET r1 == CountUpdate(r)
             IN  IF r1.todo > 0
                   THEN [ r1 EXCEPT !.hr = Await("update"), !.updates = r.updates + 1 ]
                   ELSE EndOfPage(r1)

\* the invocation resumed by the settled call `resp`
Resume(r, resp) ==
    IF r.call = "single"
      THEN LET got == StrapiRequest(resp)
           IN  [ r EXCEPT !.hr = IF got.ok THEN Return(ToolResult(got.data))
                                           ELSE CatchToolFailure("executor", got.message),
                          !.call = "none",
                          !.failed = IF got.ok THEN "none" ELSE r.call ]
      ELSE ReplaceMediaUrls(r, resp)

(***************************************************************************)
(* The query serializer.  A query value is a string, null, undefined, an   *)
(* object (its entries in the enumeration order of `for (key in params)`)  *)
(* or an array.  A key, like every text, is a sequence of pieces; the      *)
(* characters that matter to the notation and to the percent-encoding are  *)
(* pieces of their own.                                                    *)
(***************************************************************************)
Str(text) == [ type |-> "string", s |-> text ]
Obj(kv) == [ type |-> "object", kv |-> kv ]
Arr(el) == [ type |-> "array", el |-> el ]

\* `${index}`: the decimal numeral of an array index
IndexString(index) == << "0", "1", "2", "3", "4", "5", "6", "7", "8", "9" >>[index + 1]

\* `${value}` of a scalar, as the template literal and encodeURIComponent
\* convert it
String(value) ==
    IF value.type = "string" THEN value.s
    ELSE IF value.type = "null" THEN << "null" >>
    ELSE << "undefined" >>

\* typeof val === 'object'
TypeofObject(val) == val.type \in { "object", "array", "null" }

\* encodeURIComponent: the reserved characters are escaped, the others kept
EncodeURIComponent(text) ==
    [ n \in DOMAIN text |->
        CASE text[n] = "[" -> "%5B"
          [] text[n] = "]" -> "%5D"
          [] text[n] = "$" -> "%24"
          [] text[n] = "&" -> "%26"
          [] text[n] = "=" -> "%3D"
          [] text[n] = "?" -> "%3F"
          [] OTHER -> text[n] ]

\* parts.filter(p => p !== '')
NonEmpty(parts) == SelectSeq(parts, LAMBDA p : p # << >>)

\* parts.join('&')
RECURSIVE Join(_, _)
Join(parts, sep) ==
    IF parts = << >> THEN << >>
    ELSE IF Len(parts) = 1 THEN parts[1]
    ELSE parts[1] \o << sep >> \o Join(Tail(parts), sep)

\* the parts pushed for the entries, one after the other
RECURSIVE Pushed(_)
Pushed(partsOfEntries) ==
    IF partsOfEntries = << >> THEN << >>
    ELSE partsOfEntries[1] \o Pushed(Tail(partsOfEntries))

\* the (key, value) pairs `for (const key in params)` visits, own properties
\* only: the entries of an object, the indices of an array, nothing of null
OwnEntries(params) ==
    IF params.type = "object" THEN params.kv
    ELSE IF params.type = "array" /\ params.el # << >>
      THEN [ n \in DOMAIN params.el |->
               [ k |-> << IndexString(n - 1) >>, v |-> params.el[n] ] ]
    ELSE << >>

\* a serializer that writes nested keys in dot notation
NewPrefixDotted(prefix, key) ==
    IF prefix # << >> THEN prefix \o << "." >> \o key ELSE key

\* const newPrefix = prefix ? `${prefix}[${key}]` : key
NewPrefix(prefix, key) ==
    IF prefix # << >> THEN prefix \o << "[" >> \o key \o << "]" >> ELSE key

RECURSIVE BuildQueryString(_, _)
BuildQueryString(params, prefix) ==
    LET PartsOf(entry) ==
            LET value == entry.v
                newPrefix == NewPrefix(prefix, entry.k)
            IN  IF value.type = "object"
                  THEN << BuildQueryString(value, newPrefix) >>
                ELSE IF value.type = "array"
                  THEN IF value.el = << >> THEN << >>
                       ELSE [ n \in DOMAIN value.el |->
                                LET val == value.el[n]
                                    indexed == newPrefix \o << "[", IndexString(n - 1), "]" >>
                                IN  IF TypeofObject(val)
                                      THEN BuildQueryString(val, indexed)
                                      ELSE EncodeURIComponent(indexed) \o << "=" >>
                                             \o EncodeURIComponent(String(val)) ]
                ELSE IF value.type # "undefined"
                  THEN << EncodeURIComponent(newPrefix) \o << "=" >>
                            \o EncodeURIComponent(String(value)) >>
                ELSE << >>
        entries == OwnEntries(params)
        parts == IF entries = << >> THEN << >>
                 ELSE Pushed([ n \in DOMAIN entries |-> PartsOf(entries[n]) ])
    IN  Join(NonEmpty(parts), "&")

\* findEntries(pluralName, queryParams = {}): the serialized query and the
\* endpoint handed to strapiRequest
FindEntries(pluralName, queryParams) ==
    LET qs == BuildQueryString(IF queryParams.type = "undefined" THEN Obj(<< >>)
                                                                 ELSE queryParams, << >>)
    IN  [ qs |-> qs,
          endpoint |-> << "/api/", pluralName >>
                         \o (IF qs # << >> THEN << "?" >> \o qs ELSE << >>) ]

\* case 'strapi_list_media': the serialized query and the endpoint handed to
\* strapiRequest
ListMedia(queryParams) ==
    LET qs == BuildQueryString(IF queryParams.type \in { "undefined", "null" }
                                 THEN Obj(<< >>) ELSE queryParams, << >>)
    IN  [ qs |-> qs, endpoint |-> << "/api/upload/files", "?" >> \o qs ]

(***************************************************************************)
(* The query objects of the model.                                         *)
(***************************************************************************)
Strings == { << "a" >>, << "b" >>, << "x" >>, << "a", "&", "b" >> }

Scalars == { Str(text) : text \in Strings } \cup { JsNull }

\* the objects with at most one entry, its key in `keys`, its value in `values`
ObjectsWith(keys, values) ==
    { Obj(<< >>) } \cup { Obj(<< [ k |-> key, v |-> value ] >>) : key \in keys, value \in values }

\* { $eq: scalar }
Conditions == ObjectsWith({ << "$", "eq" >> }, Scalars)

\* { title: ... }, and an object with an integer-like key
Filters == ObjectsWith({ << "title" >>, << "0" >> }, Scalars \cup Conditions)

Elements ==
    Scalars \cup { Obj(<< [ k |-> << "title" >>, v |-> Str(<< "x" >>) ] >>),
                   Arr(<< Str(<< "a" >>) >>) }

Arrays == { Arr(el) : el \in UNION { [ 1..m -> Elements ] : m \in 0..MaxElems } }

\* what a property of a query object can hold
Members == Scalars \cup { JsUndefined } \cup Filters \cup Arrays

\* the query objects: { }, { filters }, { populate }, { filters, populate }
Queries ==
    ObjectsWith({ << "filters" >>, << "populate" >> }, Members)
    \cup { Obj(<< [ k |-> << "filters" >>, v |-> v ], [ k |-> << "populate" >>, v |-> w ] >>) :
             v \in Members, w \in Members }

\* what args.queryParams can be
QueryParams == Queries \cup { JsUndefined, JsNull }

\* one run of the serializer: the value given, the string built, and the
\* endpoint the caller made of it
Serializer(pc, params, qs, endpoint) ==
    [ pc |-> pc, params |-> params, qs |-> qs, endpoint |-> endpoint ]

(***************************************************************************)
(* State.  The continuation of `await handleRequest(request)` runs as a    *)
(* microtask: in arrival order, and before any backend completion is       *)
(* delivered.  A handler whose dispatch needs no backend call therefore    *)
(* writes its response before any later event can be observed, and the     *)
(* model runs it in the step that reads the line.                          *)
(***************************************************************************)
VARIABLES
    reqs,      \* the invocations, one per line read, in arrival order
    out,       \* the lines written to standard output
    alive,     \* the process runs: no promise of a handler was rejected
    ser,       \* the run of the query serializer under check
    cli,       \* the run of the backend client under check
    config     \* CONFIG, resolved when the process starts

vars == << reqs, out, alive, ser, cli, config >>

\* CONFIG as the environment can make it: with or without a token
Configs ==
    [ STRAPI_URL : { "http://localhost:1337" }, STRAPI_TOKEN : { "", "token" },
      PROJECT_ROOT : { "cwd" }, LOG_FILE : { "mcp-server.log" } ]

\* CONFIG of an empty environment
DefaultConfig == [ STRAPI_URL |-> "http://localhost:1337", STRAPI_TOKEN |-> "",
                   PROJECT_ROOT |-> "cwd", LOG_FILE |-> "mcp-server.log" ]

\* one run of the client: the arguments of strapiRequest, what it handed to
\* fetch, the outcome, and the messages it logged
Client(pc, endpoint, method, body, request, outcome, logged) ==
    [ pc |-> pc, endpoint |-> endpoint, method |-> method, body |-> body,
      request |-> request, outcome |-> outcome, logged |-> logged ]

NoClient == Client("idle", "-", "GET", JsNull, << >>, NoData, << >>)

Init ==
    /\ reqs = << >>
    /\ out = << >>
    /\ alive = TRUE
    /\ ser = Serializer("idle", JsUndefined, << >>, << >>)
    /\ cli = NoClient
    /\ config = DefaultConfig

(***************************************************************************)
(* Actions.                                                                *)
(***************************************************************************)
\* a transport that delivers completions in the order of the requests
DeliverableInOrder(rs, i) ==
    rs[i].pc = "call" /\ \A j \in 1..(i - 1) : rs[j].pc = "done"

\* the completion of the call of invocation i can be delivered: every
\* invocation awaits its own promise
Deliverable(rs, i) == rs[i].pc = "call"

\* the handler of line i has run to its end: its writes, its log entries
Finish(i, r, logged, got, hr) ==
    LET eff == Settle(reqs, i, hr)
    IN  /\ reqs' = [ reqs EXCEPT ![i] =
                       [ Request(r.line, "done", NoOutcome, "none", logged \o eff.log)
                           EXCEPT !.dispatched = TRUE, !.exc = hr.exc, !.got = got,
                                  !.matched = r.matched, !.updates = r.updates,
                                  !.failed = r.failed ] ]
        /\ out' = out \o eff.write
        /\ alive' = ~eff.uncaught

\* rl.on('line') for one line that is blank or not JSON
ReadBadLine ==
    /\ alive
    /\ Len(reqs) < MaxLines
    /\ \E line \in Lines(Len(reqs) + 1) :
         /\ line.kind \in {"blank", "garbage"}
         /\ reqs' = Append(reqs, Request(line, "done", NoOutcome, "none",
                                         IF line.kind = "blank" THEN << >>
                                                                ELSE ParseFailure))
    /\ UNCHANGED << out, alive, ser, cli, config >>

\* rl.on('line') for one line that parses: the handler up to its first wait
\* on the backend, or to its end when the dispatch needs no backend call
ReadLine ==
    /\ alive
    /\ Len(reqs) < MaxLines
    /\ UNCHANGED << ser, cli, config >>
    /\ \E line \in Lines(Len(reqs) + 1) :
         /\ line.kind \notin {"blank", "garbage"}
         /\ \E hr \in Dispatch(reqs, line) :
              LET i == Len(reqs) + 1
              IN  IF hr.st = "await"
                    THEN /\ reqs' = Append(reqs,
                                      [ Request(line, "call", hr, hr.call, << "Request" >>)
                                          EXCEPT !.dispatched = TRUE ])
                         /\ UNCHANGED << out, alive >>
                    ELSE LET r == [ Request(line, "done", NoOutcome, "none", << >>)
                                      EXCEPT !.dispatched = TRUE, !.exc = hr.exc,
                                             !.fs = IF "fs" \in DOMAIN hr THEN hr.fs
                                                                          ELSE "none" ]
                             eff == Settle(Append(reqs, r), i, hr)
                         IN  /\ reqs' = Append(reqs, [ r EXCEPT !.logged = eff.log ])
                             /\ out' = out \o eff.write
                             /\ alive' = ~eff.uncaught

\* the backend call of invocation i settles; the invocation runs on to its
\* next call or to its end
Complete(i) ==
    /\ alive
    /\ Deliverable(reqs, i)
    /\ UNCHANGED << ser, cli, config >>
    /\ \E resp \in IF reqs[i].call = "page" THEN PageResponses(reqs[i].page)
                                            ELSE Responses :
         LET r == Resume(reqs[i], resp)
             logged == reqs[i].logged \o (IF ResponseOk(resp) THEN << >> ELSE << "Error" >>)
             got == IF ResponseOk(resp) /\ reqs[i].call = "single"
                      THEN StrapiRequest(resp).data ELSE reqs[i].got
         IN  IF r.hr.st = "await"
               THEN /\ reqs' = [ reqs EXCEPT ![i] =
                                   [ r EXCEPT !.logged = logged \o << "Request" >>,
                                              !.got = got ] ]
                    /\ UNCHANGED << out, alive >>
               ELSE Finish(i, r, logged, got, r.hr)

BackendComplete == \E i \in DOMAIN reqs : Complete(i)

\* the backend never answers a call: fetch has no timeout
BackendHang ==
    /\ alive
    /\ \E i \in DOMAIN reqs :
         /\ reqs[i].pc = "call"
         /\ reqs' = [ reqs EXCEPT ![i].pc = "hung" ]
    /\ UNCHANGED << out, alive, ser, cli, config >>

Next == ReadBadLine \/ ReadLine \/ BackendComplete \/ BackendHang

Spec == Init /\ [][Next]_vars

\* the event loop delivers the completion of every call the backend answers
FairSpec == Spec /\ WF_vars(BackendComplete)

(***************************************************************************)
(* The serializer and its callers, applied to every query object.          *)
(***************************************************************************)
SerializerInit ==
    /\ reqs = << >>
    /\ out = << >>
    /\ alive = TRUE
    /\ \E params \in QueryParams : ser = Serializer("input", params, << >>, << >>)
    /\ cli = NoClient
    /\ config = DefaultConfig

\* buildQueryString(params)
CallBuildQueryString ==
    /\ ser.pc = "input"
    /\ ser.params.type = "object"
    /\ ser' = Serializer("buildQueryString", ser.params,
                          BuildQueryString(ser.params, << >>), << >>)
    /\ UNCHANGED << reqs, out, alive, cli, config >>

\* case 'strapi_query': findEntries(args.pluralName, args.queryParams)
CallFindEntries ==
    /\ ser.pc = "input"
    /\ LET built == FindEntries("articles", ser.params)
       IN  ser' = Serializer("findEntries", ser.params, built.qs, built.endpoint)
    /\ UNCHANGED << reqs, out, alive, cli, config >>

\* case 'strapi_list_media'
CallListMedia ==
    /\ ser.pc = "input"
    /\ LET built == ListMedia(ser.params)
       IN  ser' = Serializer("listMedia", ser.params, built.qs, built.endpoint)
    /\ UNCHANGED << reqs, out, alive, cli, config >>

SerializerNext == CallBuildQueryString \/ CallFindEntries \/ CallListMedia

SerializerSpec == SerializerInit /\ [][SerializerNext]_vars

(***************************************************************************)
(* The backend client, applied to every kind of call and of response.      *)
(***************************************************************************)
\* what a fetch of the client under check can settle with
ClientResponses ==
    { Response(status, body, 0, 0) :
        status \in { 200, 201, 304, 404, 500 },
        body \in { JsonText("b1"), JsonText("b2"), PlainText("<html>"), PlainText("") } }
    \cup { Rejection }

ClientInit ==
    /\ reqs = << >>
    /\ out = << >>
    /\ alive = TRUE
    /\ ser = Serializer("idle", JsUndefined, << >>, << >>)
    /\ config \in Configs
    /\ \E endpoint \in { "/api/users/me", "/api/articles" },
          method \in { "GET", "POST", "PUT", "DELETE" },
          body \in { JsNull, [ type |-> "object", data |-> "entry" ] } :
         cli = Client("input", endpoint, method, body, << >>, NoData, << >>)

\* strapiRequest(endpoint, method, body) up to `await fetch(...)`
CallStrapiRequest ==
    /\ cli.pc = "input"
    /\ cli' = [ cli EXCEPT !.pc = "fetch",
                           !.request = FetchRequest(config, cli.endpoint, cli.method, cli.body),
                           !.logged = << "Request" >> ]
    /\ UNCHANGED << reqs, out, alive, ser, config >>

\* fetch settles and strapiRequest returns or throws
FetchSettles ==
    /\ cli.pc = "fetch"
    /\ \E resp \in ClientResponses :
         LET outcome == StrapiRequest(resp)
         IN  cli' = [ cli EXCEPT !.pc = "settled",
                                !.outcome = [ resp |-> resp, ok |-> outcome.ok,
                                              data |-> outcome.data,
                                              message |-> outcome.message ],
                                !.logged = cli.logged \o (IF outcome.ok THEN << >>
                                                                        ELSE << "Error" >>) ]
    /\ UNCHANGED << reqs, out, alive, ser, config >>

ClientNext == CallStrapiRequest \/ FetchSettles

ClientSpec == ClientInit /\ [][ClientNext]_vars

(***************************************************************************)
(* Vocabulary of the properties.                                           *)
(***************************************************************************)
KnownMethods == { "initialize", "notifications/initialized", "tools/list", "tools/call" }

\* the output lines written for the line read as number i
ResponsesTo(i) == { k \in DOMAIN out : out[k].cause = i }

IsResultEnvelope(e) == "result" \in DOMAIN e /\ "error" \notin DOMAIN e
IsErrorEnvelope(e) == "error" \in DOMAIN e /\ "result" \notin DOMAIN e

\* a tool-call payload flagged as an error
IsToolError(v) == "isError" \in DOMAIN v /\ v.isError = TRUE

\* the line parsed to a value
Parsed(i) == reqs[i].line.kind \notin {"blank", "garbage"}

HasId(i) == reqs[i].line.id # Undefined

\* a tools/call whose params is an object
IsCall(i) ==
    /\ reqs[i].line.kind = "object"
    /\ reqs[i].line.method = "tools/call"
    /\ reqs[i].line.params = "object"

\* the handler of line i has ended
Done(i) == reqs[i].pc = "done"

Hung(i) == reqs[i].pc = "hung"

\* strapiRequest was called for line i
CalledBackend(i) == \E n \in DOMAIN reqs[i].logged : reqs[i].logged[n] = "Request"

\* a backend call of line i failed
BackendFailed(i) == \E n \in DOMAIN reqs[i].logged : reqs[i].logged[n] = "Error"

AnsweredOnce(i) == Cardinality(ResponsesTo(i)) = 1

\* line i was read and its invocation waits on a call the backend never answers
Stuck(i) == i \in DOMAIN reqs /\ Hung(i)

(***************************************************************************)
(* C1: a line that parses to a request without an id never produces an     *)
(* output line, whatever its method and whether the dispatcher returns or  *)
(* throws.                                                                 *)
(***************************************************************************)
C1_NoIdNoOutput ==
    /\ \A i \in DOMAIN reqs : (Parsed(i) /\ ~HasId(i)) => ResponsesTo(i) = {}
    /\ \A k \in DOMAIN out : out[k].id # Undefined

\* two requests without id have been handled to their end, one through a
\* backend call and one by a throw of the dispatcher, and nothing was written
C1_Witness ==
    /\ Len(reqs) = 2
    /\ \E i, j \in DOMAIN reqs :
         /\ IsCall(i) /\ ~HasId(i) /\ Done(i) /\ CalledBackend(i)
         /\ reqs[j].line.method = "no/such/method" /\ ~HasId(j) /\ Done(j)
    /\ out = << >>

(***************************************************************************)
(* C2: every request that carries an id receives at most one response      *)
(* line, and that line carries the id of the request that caused it.       *)
(***************************************************************************)
C2_AtMostOneCorrelated ==
    \A i \in DOMAIN reqs :
        HasId(i) =>
          /\ Cardinality(ResponsesTo(i)) <= 1
          /\ Cardinality({ k \in DOMAIN out : out[k].id = reqs[i].line.id }) <= 1
          /\ \A k \in ResponsesTo(i) : out[k].id = reqs[i].line.id

\* two tool calls with ids were both answered after their backend calls
C2_Witness ==
    /\ Len(reqs) = 2 /\ Len(out) = 2
    /\ \A i \in DOMAIN reqs : IsCall(i) /\ HasId(i) /\ CalledBackend(i) /\ AnsweredOnce(i)

(***************************************************************************)
(* C3: a tools/call with an id that names a registered tool whose executor *)
(* raises is answered with a result envelope (no error member) whose       *)
(* payload has isError true and exactly one text item whose text starts    *)
(* with "Error: ".                                                         *)
(***************************************************************************)
C3_ToolFailureIsResult ==
    \A i \in DOMAIN reqs :
        ( /\ IsCall(i) /\ HasId(i) /\ Done(i)
          /\ reqs[i].line.name \in ToolNames
          /\ reqs[i].exc = "executor" )
        => /\ ResponsesTo(i) # {}
           /\ \A k \in ResponsesTo(i) :
                /\ IsResultEnvelope(out[k])
                /\ IsToolError(out[k].result)
                /\ Len(out[k].result.content) = 1
                /\ out[k].result.content[1].type = "text"
                /\ Len(out[k].result.content[1].text) > 1
                /\ out[k].result.content[1].text[1] = "Error: "

\* one registered tool failed at the backend, another one in the filesystem,
\* and both requests were answered
C3_Witness ==
    \E i, j \in DOMAIN reqs :
        /\ IsCall(i) /\ HasId(i) /\ Done(i) /\ reqs[i].line.name \in ToolNames
        /\ reqs[i].exc = "executor" /\ BackendFailed(i) /\ AnsweredOnce(i)
        /\ IsCall(j) /\ HasId(j) /\ Done(j) /\ reqs[j].line.name \in LocalCases
        /\ reqs[j].line.args = "object"
        /\ reqs[j].exc = "executor" /\ AnsweredOnce(j)

(***************************************************************************)
(* C4: a tools/call with an id whose name is not in the tool registry is   *)
(* answered with a protocol-error envelope, not with a result envelope     *)
(* that carries an isError payload.                                        *)
(***************************************************************************)
C4_UnknownToolIsProtocolError ==
    \A i \in DOMAIN reqs :
        (IsCall(i) /\ HasId(i) /\ Done(i) /\ reqs[i].line.name \notin ToolNames)
        => /\ ResponsesTo(i) # {}
           /\ \A k \in ResponsesTo(i) : IsErrorEnvelope(out[k])

(***************************************************************************)
(* C5: a request with an id whose method is none of the four known ones is *)
(* answered with exactly one error envelope {id, error: {code, message}}   *)
(* with code -32603, and no error envelope is written for a failure of an  *)
(* executor.                                                               *)
(***************************************************************************)
C5_UnknownMethodError ==
    /\ \A i \in DOMAIN reqs :
         ( /\ reqs[i].line.kind = "object" /\ HasId(i)
           /\ reqs[i].line.method \notin KnownMethods )
         => /\ AnsweredOnce(i)
            /\ \A k \in ResponsesTo(i) :
                 /\ IsErrorEnvelope(out[k])
                 /\ out[k].id = reqs[i].line.id
                 /\ DOMAIN out[k].error = { "code", "message" }
                 /\ out[k].error.code = -32603
    /\ \A k \in DOMAIN out :
         IsErrorEnvelope(out[k]) => reqs[out[k].cause].exc # "executor"

\* an unknown method was answered with an error envelope and a failed
\* executor with a result envelope
C5_Witness ==
    \E i, j \in DOMAIN reqs :
        /\ reqs[i].line.method = "no/such/method" /\ HasId(i) /\ AnsweredOnce(i)
        /\ \A k \in ResponsesTo(i) : IsErrorEnvelope(out[k])
        /\ IsCall(j) /\ HasId(j) /\ reqs[j].exc = "executor" /\ AnsweredOnce(j)
        /\ \A k \in ResponsesTo(j) : IsResultEnvelope(out[k])

(***************************************************************************)
(* C6: a line that is not valid JSON produces no output line and exactly   *)
(* one log entry, and the dispatcher is not invoked for it.  As stated it  *)
(* covers blank lines, which are skipped before the parse and log nothing. *)
(***************************************************************************)
C6_Original ==
    \A i \in DOMAIN reqs :
        ~Parsed(i) => /\ ResponsesTo(i) = {}
                      /\ Len(reqs[i].logged) = 1
                      /\ ~reqs[i].dispatched

\* C6 as amended: a non-blank line that is not valid JSON produces no output
\* line and exactly one log entry, and the dispatcher is not invoked for it;
\* a blank line produces no output line and no log entry
C6_MalformedLine ==
    \A i \in DOMAIN reqs :
        /\ reqs[i].line.kind = "garbage" =>
             /\ ResponsesTo(i) = {}
             /\ reqs[i].logged = << "Failed to parse request" >>
             /\ ~reqs[i].dispatched
        /\ reqs[i].line.kind = "blank" =>
             /\ ResponsesTo(i) = {}
             /\ reqs[i].logged = << >>
             /\ ~reqs[i].dispatched

\* a malformed line was read and dropped, and the request after it answered
C6_Witness ==
    /\ Len(reqs) = 2
    /\ reqs[1].line.kind = "garbage" /\ Len(reqs[1].logged) = 1
    /\ HasId(2) /\ AnsweredOnce(2)
    /\ Len(out) = 1

(***************************************************************************)
(* C7: no failure stops the server.  After framing failures, malformed     *)
(* envelopes, unknown methods, unknown tools and raising executors the     *)
(* process still runs, the loop still accepts a line, and a well-formed    *)
(* request with an id that is read after a failure is dispatched and       *)
(* answered (unless the backend leaves its own call unanswered).           *)
(***************************************************************************)
\* the line read as number j ended in a failure of one of the classes
Failed(j) ==
    \/ reqs[j].line.kind \in { "garbage", "null", "scalar" }
    \/ reqs[j].line.kind = "object" /\ reqs[j].line.method \notin KnownMethods
    \/ reqs[j].line.method = "tools/call" /\ reqs[j].line.params = "absent"
    \/ IsCall(j) /\ reqs[j].line.name \notin ToolNames
    \/ reqs[j].exc = "executor"

\* a request of a known method, with params where the method reads them
WellFormed(i) ==
    /\ reqs[i].line.kind = "object"
    /\ reqs[i].line.method \in KnownMethods
    /\ reqs[i].line.method = "tools/call" => reqs[i].line.params = "object"

C7_NoFailureStops ==
    /\ [](alive /\ (Len(reqs) < MaxLines => ENABLED ReadLine))
    /\ \A i \in 1..MaxLines :
         []( ( /\ i \in DOMAIN reqs
               /\ WellFormed(i) /\ HasId(i)
               /\ \E j \in 1..(i - 1) : Failed(j) )
             => /\ reqs[i].dispatched
                /\ <>(AnsweredOnce(i) \/ Stuck(i)) )

\* a failure of each kind in turn, then a well-formed request that was
\* answered after its backend call
C7_Witness ==
    /\ Len(reqs) = 2
    /\ Failed(1)
    /\ WellFormed(2) /\ HasId(2) /\ IsCall(2) /\ CalledBackend(2) /\ AnsweredOnce(2)
    /\ alive

(***************************************************************************)
(* C8: a tool invocation whose backend call never completes blocks only    *)
(* itself.  It stays pending for ever, a further line can still be read,   *)
(* and every other request with an id, read before or after it, receives   *)
(* its response (unless its own backend call never completes either).      *)
(***************************************************************************)
C8_HungBlocksOnlyItself ==
    /\ [][ \A i \in DOMAIN reqs :
             Hung(i) => /\ reqs'[i] = reqs[i]
                        /\ \A k \in DOMAIN out' : out'[k].cause # i ]_vars
    /\ []( ((\E h \in DOMAIN reqs : Hung(h)) /\ Len(reqs) < MaxLines)
           => ENABLED ReadLine )
    /\ \A j \in 1..MaxLines :
         []( ( /\ j \in DOMAIN reqs
               /\ HasId(j)
               /\ \E h \in DOMAIN reqs : h # j /\ Hung(h) )
             => <>(AnsweredOnce(j) \/ Stuck(j)) )

\* the first invocation hangs; the second one, read after it, was answered
\* after its own backend call
C8_Witness ==
    /\ Len(reqs) = 2
    /\ Hung(1) /\ HasId(1) /\ ResponsesTo(1) = {}
    /\ IsCall(2) /\ HasId(2) /\ CalledBackend(2) /\ AnsweredOnce(2)

(***************************************************************************)
(* C9: tool calls are in flight at the same time and complete in any       *)
(* order: the call of every pending invocation can be the next to settle.  *)
(* In every run each response carries the id of its own request and, for   *)
(* a backend call that succeeded, the body the backend gave to that call.  *)
(***************************************************************************)
C9_OwnResponse ==
    /\ \A i \in DOMAIN reqs : reqs[i].pc = "call" => ENABLED Complete(i)
    /\ \A k \in DOMAIN out :
         LET i == out[k].cause
         IN  /\ i \in DOMAIN reqs
             /\ out[k].id = reqs[i].line.id
             /\ ( /\ IsCall(i) /\ reqs[i].line.name \in RemoteCases
                  /\ reqs[i].exc = "none" )
                => /\ IsResultEnvelope(out[k])
                   /\ ~IsToolError(out[k].result)
                   /\ out[k].result.content[1].text = << "{", reqs[i].got, "}" >>

\* requests 1 and 2 were in flight together, the backend answered them with
\* different bodies, and the response for id 2 was written first
C9_Witness ==
    /\ Len(reqs) = 2 /\ Len(out) = 2
    /\ \A i \in DOMAIN reqs :
         IsCall(i) /\ reqs[i].line.id = i /\ reqs[i].line.name \in RemoteCases
         /\ reqs[i].exc = "none"
    /\ reqs[1].got # reqs[2].got
    /\ out[1].id = 2 /\ out[2].id = 1

(***************************************************************************)
(* C10: under fairness every request with an id is eventually answered     *)
(* with exactly one response line, unless one of its backend calls never   *)
(* completes.                                                              *)
(***************************************************************************)
C10_EventuallyAnswered ==
    /\ [](\A i \in DOMAIN reqs : Cardinality(ResponsesTo(i)) <= 1)
    /\ \A i \in 1..MaxLines :
         []( (i \in DOMAIN reqs /\ HasId(i)) => <>(AnsweredOnce(i) \/ Stuck(i)) )

\* a bulk replace with an id went through a page fetch and an update call
\* and further calls, and was answered once
C10_Witness ==
    \E i \in DOMAIN reqs :
        /\ IsCall(i) /\ HasId(i) /\ reqs[i].line.name \in BulkCases
        /\ Len(reqs[i].logged) >= 3
        /\ reqs[i].exc = "none"
        /\ Done(i) /\ AnsweredOnce(i)

(***************************************************************************)
(* C11: every response line written contains exactly one of the members    *)
(* result and error, for every method, notifications/initialized with an   *)
(* id included (its result member is written, with the value null).        *)
(***************************************************************************)
C11_ExactlyOneMember ==
    /\ \A k \in DOMAIN out :
         ("result" \in DOMAIN out[k]) # ("error" \in DOMAIN out[k])
    /\ \A i \in DOMAIN reqs :
         ( /\ reqs[i].line.kind = "object" /\ HasId(i)
           /\ reqs[i].line.method = "notifications/initialized" )
         => /\ AnsweredOnce(i)
            /\ \A k \in ResponsesTo(i) :
                 IsResultEnvelope(out[k]) /\ out[k].result = JsNull

\* a notifications/initialized with an id was answered with a null result,
\* and an unknown method with an error
C11_Witness ==
    /\ Len(out) = 2
    /\ \E i, j \in DOMAIN reqs :
         /\ reqs[i].line.method = "notifications/initialized" /\ HasId(i)
         /\ \E k \in ResponsesTo(i) : IsResultEnvelope(out[k]) /\ out[k].result.type = "null"
         /\ reqs[j].line.method = "no/such/method" /\ HasId(j)
         /\ \E k \in ResponsesTo(j) : IsErrorEnvelope(out[k])

(***************************************************************************)
(* C12: initialize always succeeds.  With or without params, before or     *)
(* after other requests and with other invocations in flight, its handler  *)
(* ends in the step that reads the line, calls no backend, logs nothing,   *)
(* and, when the request has an id, answers with the same fixed document   *)
(* in a result envelope, never with an error envelope.                     *)
(***************************************************************************)
C12_InitializeSucceeds ==
    \A i \in DOMAIN reqs :
        (reqs[i].line.kind = "object" /\ reqs[i].line.method = "initialize")
        => /\ Done(i)
           /\ reqs[i].dispatched
           /\ ~CalledBackend(i)
           /\ reqs[i].logged = << >>
           /\ reqs[i].exc = "none"
           /\ HandleRequest(reqs[i].line) = { Return(InitializeResult) }
           /\ HasId(i) =>
                /\ AnsweredOnce(i)
                /\ \A k \in ResponsesTo(i) :
                     /\ IsResultEnvelope(out[k])
                     /\ out[k].result = InitializeResult
                     /\ out[k].result.protocolVersion = "2024-11-05"
                     /\ out[k].result.serverInfo.name = "strapi-mcp-dev-edition"

\* initialize without params was answered while a tool call read before it
\* was still waiting for the backend
C12_Witness ==
    /\ Len(reqs) = 2
    /\ IsCall(1) /\ reqs[1].pc = "call"
    /\ reqs[2].line.method = "initialize" /\ reqs[2].line.params = "absent"
    /\ HasId(2) /\ AnsweredOnce(2)
    /\ \A k \in ResponsesTo(2) : out[k].result = InitializeResult

(***************************************************************************)
(* C13: tools/list returns the whole registry in its declared order, the   *)
(* same list on every call whatever was processed before, and the tool     *)
(* names in it are pairwise distinct.                                      *)
(***************************************************************************)
C13_RegistryListing ==
    /\ \A i \in DOMAIN reqs :
         ( /\ reqs[i].line.kind = "object" /\ HasId(i)
           /\ reqs[i].line.method = "tools/list" )
         => /\ AnsweredOnce(i)
            /\ \A k \in ResponsesTo(i) :
                 /\ IsResultEnvelope(out[k])
                 /\ out[k].result.tools = TOOLS
                 /\ Len(out[k].result.tools) = 16
                 /\ out[k].result.tools[1] = "strapi_whoami"
                 /\ out[k].result.tools[16] = "strapi_get_design_system_info"
                 /\ { out[k].result.tools[n] : n \in 1..16 } = SwitchCases
    /\ \A i, j \in DOMAIN reqs :
         ( /\ reqs[i].line.method = "tools/list" /\ HasId(i)
           /\ reqs[j].line.method = "tools/list" /\ HasId(j) )
         => \A k \in ResponsesTo(i), l \in ResponsesTo(j) : out[k].result = out[l].result
    /\ \A m, n \in DOMAIN TOOLS : m # n => TOOLS[m] # TOOLS[n]

\* the registry was listed after a tool call that failed at the backend
C13_Witness ==
    /\ Len(reqs) = 2
    /\ IsCall(1) /\ HasId(1) /\ reqs[1].exc = "executor" /\ BackendFailed(1) /\ AnsweredOnce(1)
    /\ reqs[2].line.method = "tools/list" /\ HasId(2) /\ AnsweredOnce(2)
    /\ \A k \in ResponsesTo(2) : out[k].result.tools = TOOLS

(***************************************************************************)
(* C14: an empty query object serializes to the empty string, and the      *)
(* callers that make a backend URL of a serialized query (strapi_query,    *)
(* strapi_list_media) leave out the `?` when the serialized string is      *)
(* empty.                                                                  *)
(***************************************************************************)
C14_EmptyQueryNoSeparator ==
    /\ (ser.pc = "buildQueryString" /\ ser.params = Obj(<< >>)) => ser.qs = << >>
    /\ (ser.pc \in { "findEntries", "listMedia" } /\ ser.qs = << >>)
         => \A n \in DOMAIN ser.endpoint : ser.endpoint[n] # "?"

(***************************************************************************)
(* A reference decoder of bracket notation: the string is split at `&`,    *)
(* each fragment at its first `=`, both sides are percent-decoded, the key *)
(* is cut into its path (the root and the bracketed segments), and the     *)
(* paths are put together again: segments that are all indices make an     *)
(* array, any others an object.  Every scalar comes back as a string.      *)
(***************************************************************************)
DecodeURIComponent(text) ==
    [ n \in DOMAIN text |->
        CASE text[n] = "%5B" -> "["
          [] text[n] = "%5D" -> "]"
          [] text[n] = "%24" -> "$"
          [] text[n] = "%26" -> "&"
          [] text[n] = "%3D" -> "="
          [] text[n] = "%3F" -> "?"
          [] OTHER -> text[n] ]

\* the position of the first piece `c` of `text`, or Len(text) + 1
IndexOf(text, c) ==
    IF \E n \in DOMAIN text : text[n] = c
      THEN CHOOSE n \in DOMAIN text : text[n] = c /\ \A m \in 1..(n - 1) : text[m] # c
      ELSE Len(text) + 1

RECURSIVE Split(_, _)
Split(text, sep) ==
    LET n == IndexOf(text, sep)
    IN  IF n > Len(text) THEN << text >>
        ELSE << SubSeq(text, 1, n - 1) >> \o Split(SubSeq(text, n + 1, Len(text)), sep)

\* the bracketed segments of the rest of a key
RECURSIVE Brackets(_)
Brackets(rest) ==
    IF rest = << >> \/ rest[1] # "[" \/ IndexOf(rest, "]") > Len(rest) THEN << >>
    ELSE LET c == IndexOf(rest, "]")
         IN  << SubSeq(rest, 2, c - 1) >> \o Brackets(SubSeq(rest, c + 1, Len(rest)))

KeyPath(key) ==
    LET o == IndexOf(key, "[")
    IN  << SubSeq(key, 1, o - 1) >> \o Brackets(SubSeq(key, o, Len(key)))

\* the fragments of a query string, percent-decoded
Fragments(qs) ==
    IF qs = << >> THEN << >>
    ELSE LET raw == Split(qs, "&")
         IN  [ n \in DOMAIN raw |->
                 LET e == IndexOf(raw[n], "=")
                 IN  [ key |-> DecodeURIComponent(SubSeq(raw[n], 1, e - 1)),
                       value |-> DecodeURIComponent(SubSeq(raw[n], e + 1, Len(raw[n]))) ] ]

PathsOf(qs) ==
    LET fragments == Fragments(qs)
    IN  IF fragments = << >> THEN << >>
        ELSE [ n \in DOMAIN fragments |->
                 [ path |-> KeyPath(fragments[n].key), value |-> fragments[n].value ] ]

\* the elements of a finite set of numbers, ascending
RECURSIVE Ascending(_)
Ascending(S) ==
    IF S = {} THEN << >>
    ELSE LET least == CHOOSE n \in S : \A m \in S : n <= m
         IN  << least >> \o Ascending(S \ { least })

IsIndex(segment) ==
    Len(segment) = 1 /\ segment[1] \in { "0", "1", "2", "3", "4", "5", "6", "7", "8", "9" }

RECURSIVE Rebuild(_)
Rebuild(pairs) ==
    IF \E n \in DOMAIN pairs : pairs[n].path = << >>
      THEN Str(pairs[CHOOSE n \in DOMAIN pairs : pairs[n].path = << >>].value)
    ELSE LET firsts == Ascending({ n \in DOMAIN pairs :
                                     \A m \in 1..(n - 1) : pairs[m].path[1] # pairs[n].path[1] })
             Under(head) ==
                 LET at == Ascending({ n \in DOMAIN pairs : pairs[n].path[1] = head })
                 IN  [ n \in DOMAIN at |->
                         [ path |-> Tail(pairs[at[n]].path), value |-> pairs[at[n]].value ] ]
         IN  IF firsts = << >> THEN Obj(<< >>)
             ELSE IF \A n \in DOMAIN firsts : IsIndex(pairs[firsts[n]].path[1])
               THEN Arr([ n \in DOMAIN firsts |-> Rebuild(Under(pairs[firsts[n]].path[1])) ])
             ELSE Obj([ n \in DOMAIN firsts |->
                          [ k |-> pairs[firsts[n]].path[1],
                            v |-> Rebuild(Under(pairs[firsts[n]].path[1])) ] ])

Decode(qs) == Rebuild(PathsOf(qs))

\* the structure with every scalar in its string form
RECURSIVE Stringified(_)
Stringified(value) ==
    IF value.type = "object"
      THEN IF value.kv = << >> THEN Obj(<< >>)
           ELSE Obj([ n \in DOMAIN value.kv |->
                        [ k |-> value.kv[n].k, v |-> Stringified(value.kv[n].v) ] ])
    ELSE IF value.type = "array"
      THEN IF value.el = << >> THEN Arr(<< >>)
           ELSE Arr([ n \in DOMAIN value.el |-> Stringified(value.el[n]) ])
    ELSE Str(String(value))

\* a value JSON can carry: no undefined in it
RECURSIVE IsJson(_)
IsJson(value) ==
    IF value.type = "object" THEN \A n \in DOMAIN value.kv : IsJson(value.kv[n].v)
    ELSE IF value.type = "array" THEN \A n \in DOMAIN value.el : IsJson(value.el[n])
    ELSE value.type # "undefined"

(***************************************************************************)
(* C15: round-trip law of the serializer: for every query object (strings, *)
(* null, nested objects, arrays) the reference decoder rebuilds, from the  *)
(* string buildQueryString produces, the structure it was given: objects   *)
(* by key, arrays by index, scalars in their string form.                  *)
(***************************************************************************)
C15_RoundTrip ==
    (ser.pc = "buildQueryString" /\ IsJson(ser.params))
    => Decode(ser.qs) = Stringified(ser.params)

(***************************************************************************)
(* C16 as stated: the serializer writes the keys in bracket notation as    *)
(* they are: {filters:{title:{$eq:"x"}}} gives filters[title][$eq]=x and   *)
(* {populate:["a","b"]} gives populate[0]=a&populate[1]=b.                 *)
(***************************************************************************)
FiltersExample ==
    Obj(<< [ k |-> << "filters" >>,
             v |-> Obj(<< [ k |-> << "title" >>,
                            v |-> Obj(<< [ k |-> << "$", "eq" >>, v |-> Str(<< "x" >>) ] >>) ] >>) ] >>)

PopulateExample ==
    Obj(<< [ k |-> << "populate" >>, v |-> Arr(<< Str(<< "a" >>), Str(<< "b" >>) >>) ] >>)

BothExamples == Obj(FiltersExample.kv \o PopulateExample.kv)

FiltersPlain == << "filters", "[", "title", "]", "[", "$", "eq", "]", "=", "x" >>

PopulatePlain ==
    << "populate", "[", "0", "]", "=", "a", "&", "populate", "[", "1", "]", "=", "b" >>

PlainFragments(qs) ==
    LET fragments == Fragments(qs)
    IN  IF fragments = << >> THEN << >>
        ELSE [ n \in DOMAIN fragments |-> fragments[n].key \o << "=" >> \o fragments[n].value ]

IsBulk(i) ==
    IsCall(i) /\ reqs[i].line.name \in BulkCases /\ reqs[i].line.args = "object"

\* the totalUpdated of the result written as output line k
ReportedTotal(k) == out[k].result.content[1].text[2].totalUpdated

(***************************************************************************)
(* C17: bulk replace with every call succeeding: over the whole paginated  *)
(* listing the executor issues as many update calls as there are assets    *)
(* whose URL contains the old prefix, none for the others, and the         *)
(* totalUpdated it reports is that number.                                 *)
(***************************************************************************)
C17_UpdatesEqualMatches ==
    \A i \in DOMAIN reqs :
        (IsBulk(i) /\ Done(i) /\ reqs[i].exc = "none")
        => /\ reqs[i].updates = reqs[i].matched
           /\ HasId(i) =>
                /\ AnsweredOnce(i)
                /\ \A k \in ResponsesTo(i) :
                     /\ IsResultEnvelope(out[k])
                     /\ ~IsToolError(out[k].result)
                     /\ ReportedTotal(k) = reqs[i].matched

\* a listing of two pages, a full one and a short one, each with a matching
\* asset: two update calls, totalUpdated = 2
C17_Witness ==
    \E i \in DOMAIN reqs :
        /\ IsBulk(i) /\ HasId(i) /\ Done(i) /\ reqs[i].exc = "none"
        /\ reqs[i].matched = 2 /\ reqs[i].updates = 2
        /\ Len(reqs[i].logged) = 4
        /\ \E k \in ResponsesTo(i) : ReportedTotal(k) = 2

(***************************************************************************)
(* C18: bulk replace, failure of one update call: the executor does not    *)
(* abort; the request is answered with a result that is not flagged as an  *)
(* error and holds the count of the updates that succeeded.                *)
(***************************************************************************)
C18_PerItemFailure ==
    \A i \in DOMAIN reqs :
        (IsBulk(i) /\ HasId(i) /\ Done(i) /\ reqs[i].failed = "update")
        => /\ ResponsesTo(i) # {}
           /\ \A k \in ResponsesTo(i) :
                /\ IsResultEnvelope(out[k])
                /\ ~IsToolError(out[k].result)
                /\ ReportedTotal(k) = reqs[i].updates - 1

(***************************************************************************)
(* C19: bulk replace, failure of a page fetch: the executor stops paging   *)
(* and the request is answered with the partial result, not flagged as an  *)
(* error.                                                                  *)
(***************************************************************************)
C19_PageFailurePartial ==
    \A i \in DOMAIN reqs :
        (IsBulk(i) /\ HasId(i) /\ Done(i) /\ reqs[i].failed = "page")
        => /\ ResponsesTo(i) # {}
           /\ \A k \in ResponsesTo(i) :
                /\ IsResultEnvelope(out[k])
                /\ ~IsToolError(out[k].result)
                /\ ReportedTotal(k) = reqs[i].updates

(***************************************************************************)
(* C20: termination of the bulk replace.  A further page is fetched only   *)
(* after a page of 100 files; after a page of fewer than 100 files, an     *)
(* empty one included, no page is fetched any more, so that a listing of   *)
(* at most MaxPages pages is never asked for a page beyond its last; and,  *)
(* under fairness, every invocation ends unless one of its backend calls   *)
(* never completes.                                                        *)
(***************************************************************************)
C20_BulkTerminates ==
    /\ [](\A i \in DOMAIN reqs : reqs[i].page <= MaxPages)
    /\ [][ \A i \in DOMAIN reqs :
             reqs'[i].page = reqs[i].page + 1 => reqs'[i].files = PageSize ]_vars
    /\ [][ \A i \in DOMAIN reqs :
             ( /\ reqs[i].call = "update" /\ reqs[i].files < PageSize
               /\ reqs'[i] # reqs[i] /\ reqs'[i].pc # "hung" )
             => reqs'[i].call \in { "update", "none" } ]_vars
    /\ \A i \in 1..MaxLines :
         []( (i \in DOMAIN reqs /\ IsBulk(i))
             => <>((i \in DOMAIN reqs /\ Done(i)) \/ Stuck(i)) )

\* a full page and then a short one, neither with a matching asset: two page
\* fetches, and the invocation returned
C20_Witness ==
    \E i \in DOMAIN reqs :
        /\ IsBulk(i) /\ Done(i) /\ reqs[i].exc = "none"
        /\ reqs[i].logged = << "Request", "Request" >>
        /\ reqs[i].updates = 0

(***************************************************************************)
(* C21: outcome classification of the backend client.  A response with a   *)
(* success status returns the decoded body; a body that is not valid JSON  *)
(* is wrapped as {raw: text}, whatever the status; a response with a       *)
(* non-success status raises an error whose message holds the status code  *)
(* and the decoded or wrapped body, and nothing else of the response.      *)
(***************************************************************************)
C21_OutcomeClassification ==
    cli.pc = "settled" =>
      LET resp == cli.outcome.resp
          data == IF resp.body.valid THEN [ type |-> "json", value |-> resp.body.content ]
                                     ELSE [ type |-> "object", raw |-> resp.body.content ]
      IN  /\ (resp.kind = "response" /\ resp.status \in 200..299) =>
               /\ cli.outcome.ok
               /\ cli.outcome.data = data
               /\ cli.logged = << "Request" >>
          /\ (resp.kind = "response" /\ resp.status \notin 200..299) =>
               /\ ~cli.outcome.ok
               /\ cli.outcome.message =
                    << "Strapi API Error (" >> \o Numeral(resp.status) \o << "): ", "{", data, "}" >>
               /\ cli.logged = << "Request", "Error" >>

\* a 404 with a body that is not JSON was raised with the status and the
\* wrapped text in its message
C21_Witness ==
    /\ cli.pc = "settled"
    /\ cli.outcome.resp.kind = "response"
    /\ cli.outcome.resp.status = 404
    /\ cli.outcome.resp.body = PlainText("<html>")
    /\ ~cli.outcome.ok
    /\ cli.outcome.message = << "Strapi API Error (", "4", "0", "4", "): ", "{",
                                [ type |-> "object", raw |-> "<html>" ], "}" >>

(***************************************************************************)
(* C22: a local executor (content-type listing, schema retrieval,          *)
(* component listing, plugin listing, plugin structure, and the design     *)
(* system lookup as well) whose path is missing does not raise: the call   *)
(* is answered with a result envelope without isError whose text is the    *)
(* descriptive object of that executor, and no backend call is issued.     *)
(***************************************************************************)
C22_MissingPathIsResult ==
    \A i \in DOMAIN reqs :
        (IsCall(i) /\ reqs[i].line.name \in LocalCases /\ reqs[i].fs = "missing")
        => /\ Done(i)
           /\ reqs[i].exc = "none"
           /\ ~CalledBackend(i)
           /\ reqs[i].logged = << >>
           /\ HasId(i) =>
                /\ AnsweredOnce(i)
                /\ \A k \in ResponsesTo(i) :
                     /\ IsResultEnvelope(out[k])
                     /\ ~IsToolError(out[k].result)
                     /\ out[k].result.content[1].text
                          = << "{", LocalResult(reqs[i].line.name, "missing"), "}" >>
                     /\ DOMAIN LocalResult(reqs[i].line.name, "missing") # {}

\* the plugin structure of a plugin that does not exist, and the content
\* types of a project without src/api, were both answered with a result
C22_Witness ==
    /\ Len(reqs) = 2 /\ Len(out) = 2
    /\ reqs[1].line.name = "strapi_get_plugin_structure" /\ reqs[1].fs = "missing"
    /\ reqs[2].line.name = "strapi_list_apis" /\ reqs[2].fs = "missing"
    /\ out[1].result.content[1].text[2] = [ error |-> "Plugin not found" ]
    /\ out[2].result.content[1].text[2] = [ error |-> "src/api directory not found" ]

\* the output lines written for line i, in order
Written(i) ==
    IF ResponsesTo(i) = {} THEN << >> ELSE << out[CHOOSE k \in ResponsesTo(i) : TRUE] >>

\* what line i produced is what its line alone produces when it is handled
\* without waiting on the backend
OutcomeOfLineAlone(i) ==
    \E hr \in HandleRequest(reqs[i].line) :
        /\ hr.st # "await"
        /\ reqs[i].exc = hr.exc
        /\ Written(i) = Settle(reqs, i, hr).write
        /\ reqs[i].logged = Settle(reqs, i, hr).log

(***************************************************************************)
(* C23: no request and no failure changes process-wide state.  The         *)
(* configuration is the one read at start-up in every reachable state, a   *)
(* tools/list answered at any position lists the same registry, and what a *)
(* line produces is determined by the line alone, whatever was read before *)
(* it: in particular a tools/call needs no earlier initialize.             *)
(***************************************************************************)
C23_NoSessionState ==
    /\ config = DefaultConfig
    /\ \A i \in DOMAIN reqs :
         /\ (Parsed(i) /\ Done(i) /\ ~CalledBackend(i))
              => /\ Cardinality(ResponsesTo(i)) <= 1
                 /\ OutcomeOfLineAlone(i)
         /\ (Parsed(i) /\ CalledBackend(i))
              => \E hr \in HandleRequest(reqs[i].line) : hr.st = "await"
         /\ (reqs[i].line.kind = "object" /\ reqs[i].line.method = "tools/list")
              => \A k \in ResponsesTo(i) : out[k].result = [ type |-> "object", tools |-> TOOLS ]

\* a tools/call was answered with a successful result after a failed call,
\* no initialize having been read
C23_Witness ==
    /\ Len(reqs) = 2 /\ Len(out) = 2
    /\ IsCall(1) /\ reqs[1].line.name = "no_such_tool"
    /\ IsCall(2) /\ reqs[2].line.name = "strapi_list_plugins" /\ reqs[2].fs = "found"
    /\ IsResultEnvelope(out[2]) /\ ~IsToolError(out[2].result)
    /\ out[2].cause = 2
    /\ config = DefaultConfig

\* the call of line i reached an executor: it called the backend, or a local
\* executor looked at its path, or the case failed on reading its arguments
ReachedExecutor(i) ==
    \/ CalledBackend(i)
    \/ reqs[i].fs # "none"
    \/ reqs[i].exc = "executor"

\* the call of line i took the not-found path: Tool not found, as an isError result
TookNotFound(i) ==
    /\ reqs[i].exc = "notfound"
    /\ HasId(i) => \A k \in ResponsesTo(i) :
                     /\ IsResultEnvelope(out[k]) /\ IsToolError(out[k].result)
                     /\ out[k].result.content[1].text
                          = << "Error: " >> \o ToolNotFound(reqs[i].line.name)

(***************************************************************************)
(* C24: the registry and the dispatch table match exactly.  The names of   *)
(* TOOLS are the case labels of the switch; a tools/call naming a          *)
(* registered tool reaches an executor and never the not-found path; a     *)
(* call that reaches an executor names a registered tool; any other name   *)
(* takes the not-found path and reaches no executor.                       *)
(***************************************************************************)
C24_RegistryMatchesDispatch ==
    /\ ToolNames = SwitchCases
    /\ Len(TOOLS) = Cardinality(ToolNames)
    /\ \A i \in DOMAIN reqs :
         IsCall(i) =>
           /\ reqs[i].line.name \in ToolNames
                => ReachedExecutor(i) /\ reqs[i].exc # "notfound"
           /\ ReachedExecutor(i) => reqs[i].line.name \in ToolNames
           /\ reqs[i].line.name \notin ToolNames
                => TookNotFound(i) /\ ~ReachedExecutor(i) /\ Done(i)

\* the bulk replace reached its executor and an unregistered name was
\* answered with Tool not found
C24_Witness ==
    /\ Len(reqs) = 2
    /\ IsCall(1) /\ reqs[1].line.name = "strapi_replace_media_urls" /\ CalledBackend(1)
    /\ IsCall(2) /\ reqs[2].line.name = "no_such_tool" /\ HasId(2)
    /\ reqs[2].exc = "notfound" /\ ResponsesTo(2) # {}

(***************************************************************************)
(* C25: a tools/call with an id.  When params is an object, every response *)
(* to it is a result envelope, whether the executor succeeds, fails or the *)
(* tool is unknown.  When params is absent, it is answered once with an    *)
(* error envelope of code -32603 whose message is that of the failed       *)
(* destructuring, and no payload flagged isError is written.               *)
(***************************************************************************)
C25_ParamsDecideEnvelope ==
    \A i \in DOMAIN reqs :
        (reqs[i].line.kind = "object" /\ reqs[i].line.method = "tools/call" /\ HasId(i))
        => /\ reqs[i].line.params = "object"
                => /\ \A k \in ResponsesTo(i) : IsResultEnvelope(out[k])
                   /\ Done(i) => AnsweredOnce(i)
           /\ reqs[i].line.params = "absent"
                => /\ Done(i) /\ AnsweredOnce(i)
                   /\ reqs[i].exc = "none"
                   /\ \A k \in ResponsesTo(i) :
                        /\ IsErrorEnvelope(out[k])
                        /\ out[k].error.code = -32603
                        /\ out[k].error.message = CannotDestructure
                        /\ out[k].id = reqs[i].line.id

\* a call without params was answered with the protocol error, and a call
\* of an unknown tool with params with a result flagged isError
C25_Witness ==
    /\ Len(reqs) = 2 /\ Len(out) = 2
    /\ reqs[1].line.method = "tools/call" /\ reqs[1].line.params = "absent"
    /\ IsErrorEnvelope(out[1]) /\ out[1].cause = 1 /\ out[1].error.code = -32603
    /\ IsCall(2) /\ reqs[2].line.name = "no_such_tool"
    /\ IsResultEnvelope(out[2]) /\ out[2].cause = 2 /\ IsToolError(out[2].result)

(***************************************************************************)
(* C26: a line that is valid JSON but not an object never produces an      *)
(* output line.  A scalar or an array is dispatched, the dispatch fails    *)
(* with Method not found, and the failure is dropped without a trace since *)
(* the value has no id.  The value null makes the dispatch fail and then   *)
(* the error path fail on reading its id: it is logged once as a parse     *)
(* failure.  In both cases the loop goes on reading.                       *)
(***************************************************************************)
C26_NonObjectIsSilent ==
    \A i \in DOMAIN reqs :
        (reqs[i].line.kind \in { "scalar", "null" })
        => /\ ResponsesTo(i) = {}
           /\ Done(i) /\ reqs[i].dispatched
           /\ alive
           /\ Len(reqs) < MaxLines => ENABLED ReadLine
           /\ reqs[i].line.kind = "scalar" => reqs[i].logged = << >>
           /\ reqs[i].line.kind = "null" => reqs[i].logged = << "Failed to parse request" >>

\* null and then a scalar were read: one parse failure is logged, nothing is
\* written
C26_Witness ==
    /\ Len(reqs) = 2 /\ out = << >> /\ alive
    /\ reqs[1].line.kind = "null" /\ reqs[1].logged = << "Failed to parse request" >>
    /\ reqs[2].line.kind = "scalar" /\ reqs[2].logged = << >>

\* the tools of TOOLS whose inputSchema has no `required` member
NoRequired ==
    { "strapi_whoami", "strapi_list_apis", "strapi_list_components",
      "strapi_list_media", "strapi_list_plugins", "strapi_get_design_system_info" }

(***************************************************************************)
(* C27: a tools/call that omits `arguments` and names a registered tool    *)
(* without required parameter runs the executor, that is, its backend call *)
(* is issued or its path is looked at, and the failure of reading a        *)
(* property of the missing arguments is never its answer.                  *)
(***************************************************************************)
C27_ArgumentsOptional ==
    \A i \in DOMAIN reqs :
        (IsCall(i) /\ reqs[i].line.name \in NoRequired /\ reqs[i].line.args = "absent")
        => /\ CalledBackend(i) \/ reqs[i].fs # "none"
           /\ \A k \in ResponsesTo(i) :
                ~(/\ IsToolError(out[k].result)
                  /\ out[k].result.content[1].text = << "Error: " >> \o CannotReadProperty)

\* the invocation of line i waits on a backend call
InFlight(i) == reqs[i].pc \in { "call", "hung" }

\* the number of backend calls line i has issued
RECURSIVE CountRequests(_)
CountRequests(log) ==
    IF log = << >> THEN 0
    ELSE (IF Head(log) = "Request" THEN 1 ELSE 0) + CountRequests(Tail(log))

Issued(i) == CountRequests(reqs[i].logged)

\* one invocation of the bulk replace between two steps
BulkStep(i) ==
    LET r == reqs[i]
        s == reqs'[i]
    IN  /\ Issued(i)' \in { Issued(i), Issued(i) + 1 }
        \* a call is issued when the one before it has settled, in the same step
        /\ Issued(i)' = Issued(i) + 1 => r.pc = "call"
        /\ InFlight(i)' =>
             /\ s.page \in { r.page, r.page + 1 }
             \* the next page is asked for once the updates of this one are over
             /\ s.page = r.page + 1
                  => /\ s.call = "page" /\ s.todo = 0
                     /\ Issued(i)' = Issued(i) + 1
                     /\ r.call = "update" => r.todo = 1
             \* no page is asked for twice
             /\ (s.call = "page" /\ Issued(i)' = Issued(i) + 1) => s.page = r.page + 1
             /\ s.totalUpdated \in { r.totalUpdated, r.totalUpdated + 1 }
             /\ s.totalUpdated = r.totalUpdated + 1 => r.call = "update" /\ r.pc = "call"

====
